---- MODULE Spec2Model ----
(***************************************************************************)
(* Model of the Amadeus access-token cache and the flight-offer search     *)
(* client of src/travel_agents/agent.py: _get_amadeus_access_token,        *)
(* format_date_for_api and search_flights, run by concurrent callers.      *)
(*                                                                         *)
(* Python values: None is the empty sequence <<>>, a present value v is    *)
(* <<v>>.  Strings that the code parses are sequences of one-character     *)
(* strings.  Time is in seconds.                                           *)
(***************************************************************************)
EXTENDS Integers, Sequences, FiniteSets, TLC

VARIABLES
    amadeus_access_token,  \* module global _amadeus_access_token
    amadeus_token_expiry,  \* module global _amadeus_token_expiry
    clock,                 \* datetime.now()
    env,                   \* TRUE iff AMADEUS_CLIENT_ID and AMADEUS_CLIENT_SECRET are both set
    tokenRequests,         \* requests.post calls made on the token endpoint so far
    started,               \* calls started so far
    overlapped,            \* some call started while another call was running
    firstExp,              \* the cached expiry when the first call returned a token
    call,                  \* per caller: the call it is running (see NoCall)
    last,                  \* the call that ended last, as it ended
    server_expiry,         \* when the token endpoint lets the cached token expire (None: not told)
    dates                  \* a run of format_date_for_api on its own (see NoDates)

vars == <<amadeus_access_token, amadeus_token_expiry, clock, env, tokenRequests,
          started, overlapped, server_expiry, dates, firstExp, call, last>>

globals == <<amadeus_access_token, amadeus_token_expiry, clock, env, tokenRequests>>

(***************************************************************************)
(* Bounds of the model.                                                    *)
(***************************************************************************)
NumCallers == 2
MaxCalls == 2
MaxTicks == 1
MaxOffers == 2
MaxApplications == 2

Callers == 1..NumCallers

\* the clock advances by a second or by an hour
TickSteps == {1, 3600}
TicksUsed(t) == (t \div 3600) + (t % 3600)

\* expires_in values the token endpoint answers with
ServerTTLs == {61, 3660}

\* price.total values of the offers the flight endpoint answers with
Prices == {150, 300}

(***************************************************************************)
(* Program constants.                                                      *)
(***************************************************************************)
DefaultExpiresIn == 3500
ExpiryBuffer == 60

None == <<>>
Some(v) == <<v>>
Truthy(x) == x /= None

(***************************************************************************)
(* format_date_for_api: datetime.strptime and strftime on character        *)
(* sequences.                                                              *)
(***************************************************************************)
DigitVal == ("0" :> 0) @@ ("1" :> 1) @@ ("2" :> 2) @@ ("3" :> 3) @@ ("4" :> 4) @@
            ("5" :> 5) @@ ("6" :> 6) @@ ("7" :> 7) @@ ("8" :> 8) @@ ("9" :> 9)
DigitChar == <<"0", "1", "2", "3", "4", "5", "6", "7", "8", "9">>

IsDigits(s) == \A i \in 1..Len(s) : s[i] \in DOMAIN DigitVal

RECURSIVE ToNat(_)
ToNat(s) == IF s = <<>> THEN 0 ELSE 10 * ToNat(SubSeq(s, 1, Len(s) - 1)) + DigitVal[s[Len(s)]]

RECURSIVE NatText(_)
NatText(n) == IF n < 10 THEN <<DigitChar[n + 1]>>
              ELSE NatText(n \div 10) \o <<DigitChar[(n % 10) + 1]>>

\* %m and %d of strftime: two digits, zero padded
TwoDigits(n) == <<DigitChar[(n \div 10) + 1], DigitChar[(n % 10) + 1]>>

Contains(s, ch) == \E i \in 1..Len(s) : s[i] = ch

\* the fields of s between the occurrences of sep
RECURSIVE Split(_, _)
Split(s, sep) ==
    IF ~Contains(s, sep) THEN <<s>>
    ELSE LET i == CHOOSE k \in 1..Len(s) : s[k] = sep /\ \A j \in 1..(k - 1) : s[j] /= sep
         IN  <<SubSeq(s, 1, i - 1)>> \o Split(SubSeq(s, i + 1, Len(s)), sep)

\* the regular expressions _strptime compiles for %d, %m and %Y
DayLexeme(f) ==
    \/ Len(f) = 1 /\ IsDigits(f) /\ ToNat(f) >= 1
    \/ Len(f) = 2 /\ IsDigits(f) /\ ToNat(f) >= 1 /\ ToNat(f) <= 31
    \/ Len(f) = 2 /\ f[1] = " " /\ IsDigits(<<f[2]>>) /\ ToNat(<<f[2]>>) >= 1
MonthLexeme(f) ==
    \/ Len(f) = 1 /\ IsDigits(f) /\ ToNat(f) >= 1
    \/ Len(f) = 2 /\ IsDigits(f) /\ ToNat(f) >= 1 /\ ToNat(f) <= 12
YearLexeme(f) == Len(f) = 4 /\ IsDigits(f)

FieldVal(f) == IF f[1] = " " THEN ToNat(<<f[2]>>) ELSE ToNat(f)

IsLeap(y) == (y % 4 = 0 /\ y % 100 /= 0) \/ y % 400 = 0
DaysInMonth(y, m) ==
    IF m = 2 THEN (IF IsLeap(y) THEN 29 ELSE 28)
    ELSE IF m \in {4, 6, 9, 11} THEN 30 ELSE 31

\* the datetime constructor: ValueError for year 0 or a day the month lacks
MakeDate(yf, mf, df) ==
    IF YearLexeme(yf) /\ MonthLexeme(mf) /\ DayLexeme(df)
       /\ ToNat(yf) >= 1 /\ FieldVal(df) <= DaysInMonth(ToNat(yf), FieldVal(mf))
    THEN [ok |-> TRUE, y |-> ToNat(yf), m |-> FieldVal(mf), d |-> FieldVal(df)]
    ELSE [ok |-> FALSE, y |-> 0, m |-> 0, d |-> 0]

\* datetime.strptime(s, "%d/%m/%Y")
strptime_dmY(s) ==
    LET f == Split(s, "/")
    IN  IF Len(f) = 3 THEN MakeDate(f[3], f[2], f[1]) ELSE MakeDate(<<>>, <<>>, <<>>)

\* datetime.strptime(s, "%Y-%m-%d")
strptime_Ymd(s) ==
    LET f == Split(s, "-")
    IN  IF Len(f) = 3 THEN MakeDate(f[1], f[2], f[3]) ELSE MakeDate(<<>>, <<>>, <<>>)

\* %Y of strftime: the C library's, which pads a year below 1000 to four
\* digits on some platforms and not on others (glibc does not; CPython
\* pads it itself from 3.13 on)
FourDigits(n) ==
    <<DigitChar[(n \div 1000) + 1], DigitChar[((n \div 100) % 10) + 1],
      DigitChar[((n \div 10) % 10) + 1], DigitChar[(n % 10) + 1]>>
YearText(y, year_padded) == IF year_padded THEN FourDigits(y) ELSE NatText(y)

\* dt.strftime("%Y-%m-%d")
strftime_Ymd(dt, year_padded) ==
    YearText(dt.y, year_padded) \o <<"-">> \o TwoDigits(dt.m) \o <<"-">> \o TwoDigits(dt.d)

\* the date the code parses out of date_str (ok = FALSE: ValueError)
parse_date(date_str) ==
    IF Contains(date_str, "/") THEN strptime_dmY(date_str)
    ELSE IF Contains(date_str, "-") THEN strptime_Ymd(date_str)
    ELSE MakeDate(<<>>, <<>>, <<>>)

\* format_date_for_api on a platform whose strftime pads the year or does
\* not: ok = FALSE stands for the ValueError of line 106
format_date_for_api(date_str, year_padded) ==
    LET dt == parse_date(date_str)
    IN  IF dt.ok THEN [ok |-> TRUE, val |-> strftime_Ymd(dt, year_padded)]
        ELSE [ok |-> FALSE, val |-> <<>>]

\* chronological order of two parsed dates
DateAfter(a, b) ==
    \/ a.y > b.y
    \/ a.y = b.y /\ a.m > b.m
    \/ a.y = b.y /\ a.m = b.m /\ a.d > b.d

\* inputs of search_flights
D_2025_07_01 == <<"2", "0", "2", "5", "-", "0", "7", "-", "0", "1">>
D_2025_07_10 == <<"2", "0", "2", "5", "-", "0", "7", "-", "1", "0">>
D_10_07_2025 == <<"1", "0", "/", "0", "7", "/", "2", "0", "2", "5">>
D_July_1st_2025 == <<"J", "u", "l", "y", " ", "1", "s", "t", " ", "2", "0", "2", "5">>

\* arguments of format_date_for_api: day, month and year fields joined the
\* two ways, and some texts of other shapes
DayFields == { <<"0", "1">>,
              <<"1">>,
              <<" ", "1">>,
              <<"2", "9">>,
              <<"3", "1">>,
              <<"3", "2">> }
MonthFields == { <<"0", "7">>,
                <<"7">>,
                <<"0", "2">>,
                <<"1", "3">> }
YearFields == { <<"2", "0", "2", "5">>,
               <<"2", "0", "2", "4">>,
               <<"0", "9", "9", "9">>,
               <<"2", "5">>,
               <<"0", "0", "0", "0">> }
OtherTexts == { <<"J", "u", "l", "y", " ", "1", "s", "t", " ", "2", "0", "2", "5">>,
                <<"2", "0", "2", "5", "0", "7", "0", "1">>,
                <<"2", "0", "2", "5", "/", "0", "7", "/", "0", "1">>,
                <<"0", "1", "-", "0", "7", "-", "2", "0", "2", "5">>,
                <<"2", "0", "2", "5", "-", "0", "7", "-", "0", "1", " ">>,
                <<"2", "0", "2", "5", "-", "0", "7", "-", "0", "1", "T", "0", "0", ":", "0", "0">>,
                <<"0", "1", "/", "0", "7", "/", "2", "0", "2", "5", "/">>,
                <<>> }
DateInputs ==
    {d \o <<"/">> \o m \o <<"/">> \o y : d \in DayFields, m \in MonthFields, y \in YearFields}
    \cup {y \o <<"-">> \o m \o <<"-">> \o d : d \in DayFields, m \in MonthFields, y \in YearFields}
    \cup OtherTexts

DatePairs == { <<D_2025_07_01, D_2025_07_10>>,
               <<D_2025_07_10, D_2025_07_01>>,
               <<D_10_07_2025, D_2025_07_01>>,
               <<D_July_1st_2025, D_2025_07_10>>,
               <<D_2025_07_01, D_July_1st_2025>> }

(***************************************************************************)
(* Values.                                                                 *)
(***************************************************************************)
\* an outcome of a function: a returned token, a returned JSON result or a
\* raised exception
Outcome(type, what, why, val) == [type |-> type, what |-> what, why |-> why, val |-> val]
NoOutcome == Outcome("none", "", "", None)
Token(t) == Outcome("token", "", "", t)
Raised(exc, why) == Outcome("raised", exc, why, None)
\* json.dumps({"min_price": ..., "currency": ..., "message": ...})
Success(price, currency) == Outcome("success", currency, "", <<price>>)
\* json.dumps({"error": ...})
Failure(what) == Outcome("error", what, "", None)

\* token_data['expires_in']: absent, a number of seconds, or not a number
ExpiresIn == {[k |-> "missing", v |-> 0], [k |-> "text", v |-> 0]}
             \cup {[k |-> "num", v |-> n] : n \in ServerTTLs}

\* response.json() of the token endpoint with the token of grant g: no
\* dict, or a dict with or without access_token (a non-empty string when
\* present) and expires_in.  The token of a grant is the number of its request
TokenBodies(g) ==
    {[shape |-> "other", access_token |-> None, expires_in |-> [k |-> "missing", v |-> 0]]}
    \cup {[shape |-> "dict", access_token |-> a, expires_in |-> e] :
             a \in {None, Some(g)}, e \in ExpiresIn}

\* an offer is its price.total: absent or a price
OfferTotals == {None} \cup {Some(p) : p \in Prices}
OfferLists == UNION {[1..n -> OfferTotals] : n \in 0..MaxOffers}

\* response.json() of the flight-offers endpoint: no dict, or a dict that
\* has the key 'data' with a list of offers or lacks it (has_data), and
\* that carries the provider's route-error code in a nested status field
\* or does not (route_error)
FlightBodies ==
    {[shape |-> "other", has_data |-> FALSE, route_error |-> FALSE, data |-> <<>>]}
    \cup {[shape |-> "dict", has_data |-> TRUE, route_error |-> r, data |-> o] :
             r \in BOOLEAN, o \in OfferLists}
    \cup {[shape |-> "dict", has_data |-> FALSE, route_error |-> r, data |-> <<>>] :
             r \in BOOLEAN}
NoBody == [shape |-> "none"]

\* what requests.post / requests.get end with when no JSON body is decoded
HttpFailures == {"timeout", "connection", "status", "undecodable"}

\* a call: pc is the line it is at ("idle": no call), kind is "token" for
\* _get_amadeus_access_token() and "search" for search_flights(...), args
\* is <<start_date, end_date>>, hit the outcome of the cache test of line
\* 27, body the decoded response being processed, tok the outcome of
\* _get_amadeus_access_token, ret the outcome of the call, tokReqs and
\* fltReqs the requests the call has sent to the two endpoints, conf
\* whether the configuration was present at some moment of the call, seen
\* the cached token and expiry when the call was made (kept for direct
\* calls of the token function made before any two calls have overlapped)
NoCall == [pc |-> "idle", kind |-> "", args |-> <<>>, hit |-> FALSE, body |-> NoBody,
           tok |-> NoOutcome, ret |-> NoOutcome, tokReqs |-> 0, fltReqs |-> 0,
           conf |-> FALSE, seen |-> <<None, None>>]

\* a run of format_date_for_api on its own: date_str is the argument,
\* year_padded tells whether the platform's strftime pads %Y to four
\* digits, out holds the results of the applications made so far
NoDates == [date_str |-> <<>>, year_padded |-> FALSE, out |-> <<>>]

Active(c) == call[c].pc /= "idle"
Quiet == \A c \in Callers : ~Active(c)
At(c, line) == call[c].pc = line

(***************************************************************************)
(* Initial state: the module has been imported (lines 15-16).              *)
(***************************************************************************)
Init ==
    /\ amadeus_access_token = None
    /\ amadeus_token_expiry = None
    /\ clock = 0
    /\ env \in BOOLEAN
    /\ tokenRequests = 0
    /\ started = 0
    /\ overlapped = FALSE
    /\ firstExp = None
    /\ call = [c \in Callers |-> NoCall]
    /\ last = NoCall
    /\ server_expiry = None
    /\ dates = NoDates

(***************************************************************************)
(* The environment: time passes, the process environment is changed.       *)
(***************************************************************************)
Tick ==
    /\ \E d \in TickSteps :
          /\ TicksUsed(clock + d) <= MaxTicks
          /\ clock' = clock + d
    /\ UNCHANGED <<amadeus_access_token, amadeus_token_expiry, env, tokenRequests,
                   started, overlapped, server_expiry, dates, firstExp, call, last>>

EnvChange ==
    /\ env' = ~env
    /\ call' = [c \in Callers |->
                   IF Active(c) THEN [call[c] EXCEPT !.conf = @ \/ env'] ELSE call[c]]
    /\ UNCHANGED <<amadeus_access_token, amadeus_token_expiry, clock, tokenRequests,
                   started, overlapped, server_expiry, dates, firstExp, last>>

(***************************************************************************)
(* A caller calls _get_amadeus_access_token() or search_flights(...).      *)
(***************************************************************************)
Begin(c, k, a) ==
    /\ ~Active(c)
    /\ started < MaxCalls
    /\ started' = started + 1
    /\ overlapped' = (overlapped \/ \E o \in Callers : Active(o))
    /\ call' = [call EXCEPT ![c] = [NoCall EXCEPT !.pc = "t27", !.kind = k, !.args = a,
                                                   !.conf = env,
                                                   !.seen = IF overlapped' \/ k /= "token"
                                                            THEN <<None, None>>
                                                            ELSE <<amadeus_access_token,
                                                                   amadeus_token_expiry>>]]
    /\ last' = NoCall
    /\ UNCHANGED <<globals, firstExp, server_expiry, dates>>

CallToken(c) == Begin(c, "token", <<>>)

\* search_flights calls are started one at a time: after the token call
\* search_flights reads and writes its local variables only
CallSearch(c) == Quiet /\ \E a \in DatePairs : Begin(c, "search", a)

\* the call of c ends with outcome o, b being the response it processed
Ends(c, b, o) ==
    /\ last' = [call[c] EXCEPT !.pc = "done", !.body = b, !.ret = o]
    /\ call' = [call EXCEPT ![c] = NoCall]

(***************************************************************************)
(* _get_amadeus_access_token                                               *)
(***************************************************************************)
\* the comparison of line 27 turned round
CacheValid_Reversed ==
    /\ Truthy(amadeus_access_token)
    /\ Truthy(amadeus_token_expiry)
    /\ clock >= amadeus_token_expiry[1]

\* line 27: the test that the cached token is still valid
CacheValid ==
    /\ Truthy(amadeus_access_token)
    /\ Truthy(amadeus_token_expiry)
    /\ clock < amadeus_token_expiry[1]

\* the token endpoint lets the token of token_data, issued at time now,
\* expire after expires_in seconds; without a numeric expires_in in the
\* body the client is not told when
ServerExpiry(now, token_data) ==
    IF token_data.expires_in.k = "num" THEN Some(now + token_data.expires_in.v) ELSE None

\* the function ends with outcome o: a direct call is over, search_flights
\* goes on at line 125
TokenEnds(c, b, o) ==
    /\ IF call[c].kind = "token"
       THEN Ends(c, b, o)
       ELSE /\ call' = [call EXCEPT ![c].pc = "s125", ![c].tok = o, ![c].body = NoBody]
            /\ UNCHANGED last
    /\ firstExp' = IF started = 1 /\ o.type = "token" THEN amadeus_token_expiry ELSE firstExp

T_Check(c) ==
    /\ At(c, "t27")
    /\ call' = [call EXCEPT ![c].hit = CacheValid,
                            ![c].pc = IF CacheValid THEN "t29" ELSE "t32"]
    /\ UNCHANGED <<globals, started, overlapped, server_expiry, dates, firstExp, last>>

\* line 29: return _amadeus_access_token
T_ReturnCached(c) ==
    /\ At(c, "t29")
    /\ TokenEnds(c, call[c].body, Token(amadeus_access_token))
    /\ UNCHANGED <<globals, started, overlapped, server_expiry, dates>>

\* lines 32-50 without the test of line 35
T_Request_NoConfigTest(c) ==
    /\ At(c, "t32")
    /\ tokenRequests' = tokenRequests + 1
    /\ call' = [call EXCEPT ![c].pc = "t50", ![c].tokReqs = @ + 1]
    /\ UNCHANGED <<amadeus_access_token, amadeus_token_expiry, clock, env,
                   firstExp, last, started, overlapped, server_expiry, dates>>

\* lines 32-50: read the configuration; raise ValueError when it is missing,
\* else send the client-credentials grant to the token endpoint
T_Request(c) ==
    /\ At(c, "t32")
    /\ IF ~env
       THEN /\ TokenEnds(c, NoBody, Raised("ValueError", "not configured"))
            /\ UNCHANGED globals
       ELSE /\ tokenRequests' = tokenRequests + 1
            /\ call' = [call EXCEPT ![c].pc = "t50", ![c].tokReqs = @ + 1]
            /\ UNCHANGED <<amadeus_access_token, amadeus_token_expiry, clock, env,
                           firstExp, last>>
    /\ UNCHANGED <<started, overlapped, server_expiry, dates>>

\* lines 50-52 and their handlers (60-70): the request ends without a body
\*   timeout: requests.exceptions.Timeout, line 61
\*   connection: a RequestException raised before response is bound, so
\*               line 64 raises UnboundLocalError
\*   status: raise_for_status raises HTTPError, line 66
\*   undecodable: response.json() raises a RequestException (line 66) or,
\*               with requests older than 2.27, a ValueError (line 70)
TokenFailure(f) ==
    CASE f = "timeout" -> {Raised("ConnectionError", "timed out")}
      [] f = "connection" -> {Raised("UnboundLocalError", "response")}
      [] f = "status" -> {Raised("ConnectionError", "failed")}
      [] f = "undecodable" -> {Raised("ConnectionError", "failed"),
                               Raised("Exception", "unexpected")}

T_Fail(c) ==
    /\ At(c, "t50")
    /\ \E f \in HttpFailures : \E o \in TokenFailure(f) : TokenEnds(c, [shape |-> f], o)
    /\ UNCHANGED <<globals, started, overlapped, server_expiry, dates>>

\* lines 50-54: a 2xx response whose body response.json() decodes, and
\* _amadeus_access_token = token_data['access_token']
\*   token_data is no dict: TypeError, line 70; no such key: KeyError, line 68
T_StoreToken(c) ==
    /\ At(c, "t50")
    /\ \E b \in TokenBodies(tokenRequests) :
          IF b.shape /= "dict"
          THEN /\ TokenEnds(c, b, Raised("Exception", "unexpected"))
               /\ UNCHANGED <<amadeus_access_token, server_expiry>>
          ELSE IF b.access_token = None
          THEN /\ TokenEnds(c, b, Raised("ValueError", "invalid response"))
               /\ UNCHANGED <<amadeus_access_token, server_expiry>>
          ELSE /\ amadeus_access_token' = b.access_token
               /\ server_expiry' = ServerExpiry(clock, b)
               /\ call' = [call EXCEPT ![c].pc = "t55", ![c].body = b]
               /\ UNCHANGED <<firstExp, last>>
    /\ UNCHANGED <<amadeus_token_expiry, clock, env, tokenRequests, started, overlapped,
                   dates>>

\* line 55: token_data.get('expires_in', 3500)
expires_in(token_data) ==
    IF token_data.expires_in.k = "missing" THEN DefaultExpiresIn ELSE token_data.expires_in.v

\* line 56: datetime.now() + timedelta(seconds=expires_in - 60)
NewExpiry(now, seconds) == now + (seconds - ExpiryBuffer)

\* lines 55-56 without the assignment to _amadeus_token_expiry
T_StoreExpiry_TokenOnly(c) ==
    /\ At(c, "t55")
    /\ call' = [call EXCEPT ![c].pc = "t58"]
    /\ UNCHANGED <<globals, started, overlapped, server_expiry, dates, firstExp, last>>

\* lines 55-56: _amadeus_token_expiry = ...; an expires_in that is no number
\* makes the subtraction raise TypeError, line 70
T_StoreExpiry(c) ==
    /\ At(c, "t55")
    /\ IF call[c].body.expires_in.k = "text"
       THEN /\ TokenEnds(c, call[c].body, Raised("Exception", "unexpected"))
            /\ UNCHANGED amadeus_token_expiry
       ELSE /\ amadeus_token_expiry' = Some(NewExpiry(clock, expires_in(call[c].body)))
            /\ call' = [call EXCEPT ![c].pc = "t58"]
            /\ UNCHANGED <<firstExp, last>>
    /\ UNCHANGED <<amadeus_access_token, clock, env, tokenRequests, started, overlapped,
                   server_expiry, dates>>

\* line 58: return _amadeus_access_token
T_Return(c) ==
    /\ At(c, "t58")
    /\ TokenEnds(c, call[c].body, Token(amadeus_access_token))
    /\ UNCHANGED <<globals, started, overlapped, server_expiry, dates>>

(***************************************************************************)
(* search_flights                                                          *)
(***************************************************************************)
\* lines 137-141: both dates pass format_date_for_api
DatesFormat(a) ==
    \A year_padded \in BOOLEAN :
       format_date_for_api(a[1], year_padded).ok /\ format_date_for_api(a[2], year_padded).ok

\* lines 123-161 with the exception of the token call swallowed
S_Request_AuthIgnored(c) ==
    /\ At(c, "s125")
    /\ IF ~DatesFormat(call[c].args)
       THEN Ends(c, NoBody, Failure("Invalid date format"))
       ELSE /\ call' = [call EXCEPT ![c].pc = "s161", ![c].fltReqs = @ + 1]
            /\ UNCHANGED last
    /\ UNCHANGED <<globals, started, overlapped, server_expiry, dates, firstExp>>

\* lines 123-161: the token call has ended.  An exception is answered with
\* the "Authentication Error" result; then the dates are formatted, and a
\* ValueError is answered with the "Invalid date format" result; else the
\* GET is sent to the flight-offers endpoint
S_Request(c) ==
    /\ At(c, "s125")
    /\ IF call[c].tok.type = "raised"
       THEN Ends(c, NoBody, Failure("Authentication Error"))
       ELSE IF ~DatesFormat(call[c].args)
       THEN Ends(c, NoBody, Failure("Invalid date format"))
       ELSE /\ call' = [call EXCEPT ![c].pc = "s161", ![c].fltReqs = @ + 1]
            /\ UNCHANGED last
    /\ UNCHANGED <<globals, started, overlapped, server_expiry, dates, firstExp>>

\* lines 161-165 and their handlers (189-204): the request ends without a body
\*   timeout: line 190
\*   connection: a RequestException raised before response is bound, so
\*               line 193 raises UnboundLocalError out of search_flights
\*   status: raise_for_status raises HTTPError; a response with an error
\*               status is falsy, so lines 194-201 are skipped; line 202
\*   undecodable: response.json() raises a RequestException (line 202) or,
\*               with requests older than 2.27, a ValueError (line 204)
FlightFailure(f) ==
    CASE f = "timeout" -> {Failure("timed out")}
      [] f = "connection" -> {Raised("UnboundLocalError", "response")}
      [] f = "status" -> {Failure("request failed")}
      [] f = "undecodable" -> {Failure("request failed"), Failure("Error processing")}

\* lines 161-165 with the request sent once more after a failure
S_Fail_Retry(c) ==
    /\ At(c, "s161")
    /\ \E f \in HttpFailures : \E o \in FlightFailure(f) :
          IF call[c].fltReqs < 2
          THEN /\ call' = [call EXCEPT ![c].fltReqs = @ + 1]
               /\ UNCHANGED last
          ELSE Ends(c, [shape |-> f], o)
    /\ UNCHANGED <<globals, started, overlapped, server_expiry, dates, firstExp>>

\* lines 161-165 and 189-204: the request fails and the handler answers
S_Fail(c) ==
    /\ At(c, "s161")
    /\ \E f \in HttpFailures : \E o \in FlightFailure(f) : Ends(c, [shape |-> f], o)
    /\ UNCHANGED <<globals, started, overlapped, server_expiry, dates, firstExp>>

\* line 169: the offer the price is taken from
cheapest_offer(data) == data[1]

\* lines 169-187 and 203-204 without the test of line 167: data['data'][0]
\* raises KeyError or IndexError when there is no first offer
Classify_Unguarded(body) ==
    IF body.shape /= "dict" \/ ~body.has_data \/ Len(body.data) = 0
    THEN Failure("Error processing")
    ELSE IF Truthy(cheapest_offer(body.data))
    THEN Success(cheapest_offer(body.data)[1], "USD")
    ELSE Failure("No flight offers found")

\* lines 167-187 and 203-204: the result for the decoded body.  Line 167
\* wants data.get('data') truthy and non-empty, line 180 wants the
\* price.total of the first offer truthy; nothing else of the body is read
Classify(body) ==
    IF body.shape /= "dict" THEN Failure("Error processing")
    ELSE IF body.has_data /\ Len(body.data) > 0 /\ Truthy(cheapest_offer(body.data))
    THEN Success(cheapest_offer(body.data)[1], "USD")
    ELSE Failure("No flight offers found")

\* lines 161-187 with a memory of earlier queries: from the second call of
\* the process on, the response is answered with the no-offers result
S_Response_Throttled(c) ==
    /\ At(c, "s161")
    /\ \E b \in FlightBodies :
          Ends(c, b, IF started > 1 THEN Failure("No flight offers found") ELSE Classify(b))
    /\ UNCHANGED <<globals, started, overlapped, server_expiry, dates, firstExp>>

\* lines 161-187: a 2xx response whose body response.json() decodes
S_Response(c) ==
    /\ At(c, "s161")
    /\ \E b \in FlightBodies : Ends(c, b, Classify(b))
    /\ UNCHANGED <<globals, started, overlapped, server_expiry, dates, firstExp>>

(***************************************************************************)
(* Specifications.                                                         *)
(***************************************************************************)
TokenStep(c) ==
    \/ T_Check(c)
    \/ T_ReturnCached(c)
    \/ T_Request(c)
    \/ T_Fail(c)
    \/ T_StoreToken(c)
    \/ T_StoreExpiry(c)
    \/ T_Return(c)

SearchStep(c) ==
    \/ S_Request(c)
    \/ S_Fail(c)
    \/ S_Response(c)

\* concurrent callers of _get_amadeus_access_token
Next ==
    \/ Tick
    \/ EnvChange
    \/ \E c \in Callers : CallToken(c) \/ TokenStep(c)

Spec == Init /\ [][Next]_vars

\* callers of search_flights
SearchNext ==
    \/ Tick
    \/ EnvChange
    \/ \E c \in Callers : CallSearch(c) \/ TokenStep(c) \/ SearchStep(c)

SearchSpec == Init /\ [][SearchNext]_vars

\* format_date_for_api on its own: applied to an argument, then to its own
\* result
DateInit ==
    /\ amadeus_access_token = None
    /\ amadeus_token_expiry = None
    /\ clock = 0
    /\ env = FALSE
    /\ tokenRequests = 0
    /\ started = 0
    /\ overlapped = FALSE
    /\ firstExp = None
    /\ call = [c \in Callers |-> NoCall]
    /\ last = NoCall
    /\ server_expiry = None
    /\ dates \in {[date_str |-> d, year_padded |-> p, out |-> <<>>] :
                     d \in DateInputs, p \in BOOLEAN}

FormatDate ==
    /\ Len(dates.out) < MaxApplications
    /\ dates.out /= <<>> => dates.out[Len(dates.out)].ok
    /\ LET date_str == IF dates.out = <<>> THEN dates.date_str
                        ELSE dates.out[Len(dates.out)].val
       IN  dates' = [dates EXCEPT
                        !.out = @ \o <<format_date_for_api(date_str, dates.year_padded)>>]
    /\ UNCHANGED <<globals, started, overlapped, server_expiry, firstExp, call, last>>

DateNext == FormatDate

DateSpec == DateInit /\ [][DateNext]_vars

(***************************************************************************)
(* Properties.                                                             *)
(***************************************************************************)
\* the calls that are running and the call that ended last
Calls == {call[c] : c \in Callers} \cup {last}
Ended(k) == k.pc = "done"

\* "a cached credential exists and now < expiresAt"
CredentialUsable ==
    /\ amadeus_access_token /= None
    /\ amadeus_token_expiry /= None
    /\ clock < amadeus_token_expiry[1]

\* the two accepted formats, DD/MM/YYYY and YYYY-MM-DD
MatchesDMY(s) ==
    /\ Len(s) = 10
    /\ s[3] = "/" /\ s[6] = "/"
    /\ IsDigits(SubSeq(s, 1, 2) \o SubSeq(s, 4, 5) \o SubSeq(s, 7, 10))
MatchesYMD(s) ==
    /\ Len(s) = 10
    /\ s[5] = "-" /\ s[8] = "-"
    /\ IsDigits(SubSeq(s, 1, 4) \o SubSeq(s, 6, 7) \o SubSeq(s, 9, 10))
Accepted(s) == MatchesDMY(s) \/ MatchesYMD(s)

\* the calendar date a string in an accepted format names
DateOf(s) ==
    IF MatchesDMY(s) THEN MakeDate(SubSeq(s, 7, 10), SubSeq(s, 4, 5), SubSeq(s, 1, 2))
    ELSE MakeDate(SubSeq(s, 1, 4), SubSeq(s, 6, 7), SubSeq(s, 9, 10))

StartAfterEnd(a) ==
    /\ Accepted(a[1]) /\ Accepted(a[2])
    /\ DateOf(a[1]).ok /\ DateOf(a[2]).ok
    /\ DateAfter(DateOf(a[1]), DateOf(a[2]))

\* the failures of _get_amadeus_access_token, by kind
ConfigurationError == Raised("ValueError", "not configured")
AuthTimeout == Raised("ConnectionError", "timed out")
AuthProtocol == {Raised("ConnectionError", "failed"), Raised("ValueError", "invalid response")}

\* C1: at most one token-endpoint request is in flight at any time (callers
\* racing on a stale cache do not each send their own refresh).
C1_SingleRefreshInFlight == Cardinality({c \in Callers : At(c, "t50")}) <= 1

\* C2: a call that finds a cached credential with now < expiresAt returns the
\* cached token and sends no token request; so two calls in sequence, the
\* first of which obtained a credential that has not expired yet, send one
\* token request in total.
C2_CacheHit ==
    /\ [][\A c \in Callers :
            (At(c, "t27") /\ call'[c].pc /= "t27" /\ CredentialUsable)
               => (call'[c].pc = "t29" /\ tokenRequests' = tokenRequests)]_vars
    /\ [][\A c \in Callers :
            (At(c, "t29") /\ call'[c].pc /= "t29" /\ call[c].kind = "token")
               => /\ tokenRequests' = tokenRequests
                  /\ last'.tokReqs = 0
                  /\ last'.ret = Token(amadeus_access_token)]_vars
    /\ [](  (started = 2 /\ Quiet /\ ~overlapped /\ firstExp /= None /\ clock < firstExp[1])
          => tokenRequests = 1)

\* C2 witness: two calls in sequence, the first obtained a credential that
\* expires an hour later, the second was answered from the cache.
C2_Witness ==
    /\ started = 2 /\ Quiet /\ ~overlapped
    /\ firstExp = Some(3600) /\ clock < 3600
    /\ Ended(last) /\ last.hit /\ last.ret.type = "token" /\ last.tokReqs = 0
    /\ tokenRequests = 1

\* C3: a search_flights call given a start date after its end date sends no
\* HTTP request and returns an InvalidDateRange failure.
C3_InvalidDateRange ==
    \A k \in Calls :
       (k.kind = "search" /\ StartAfterEnd(k.args))
          => /\ k.tokReqs = 0
             /\ k.fltReqs = 0
             /\ Ended(k) => k.ret = Failure("InvalidDateRange")

\* the lowest price.total of a list of offers that all carry one
MinTotal(data) ==
    CHOOSE p \in {data[i][1] : i \in 1..Len(data)} :
       \A i \in 1..Len(data) : p <= data[i][1]

\* C4: a decoded flight-offers response with at least one offer is answered
\* with the lowest price of its offers, whatever their order.
C4_MinPrice ==
    (/\ Ended(last) /\ last.kind = "search"
     /\ last.body.shape = "dict"
     /\ Len(last.body.data) > 0
     /\ \A i \in 1..Len(last.body.data) : last.body.data[i] /= None)
       => /\ last.ret.type = "success"
          /\ last.ret.val = Some(MinTotal(last.body.data))

\* C5: search_flights never ends with a raised exception: every outcome is a
\* returned result.
C5_NoExceptionEscapes ==
    (Ended(last) /\ last.kind = "search") => last.ret.type \in {"success", "error"}

\* C6: a search_flights call given a date in neither accepted format sends
\* no HTTP request and returns the invalid-date-format failure.
C6_InvalidDateFormat ==
    \A k \in Calls :
       (k.kind = "search" /\ (~Accepted(k.args[1]) \/ ~Accepted(k.args[2])))
          => /\ k.tokReqs = 0
             /\ k.fltReqs = 0
             /\ Ended(k) => k.ret = Failure("Invalid date format")

\* C7 as stated: a call during which the configuration is missing fails with
\* the configuration error and sends no request, whatever the cache holds.
C7_AlwaysConfigurationError ==
    \A k \in Calls :
       (k.kind = "token" /\ ~k.conf)
          => /\ k.tokReqs = 0
             /\ Ended(k) => k.ret = ConfigurationError

\* C7 amended: a call during which the configuration is missing sends no
\* request; it fails with the configuration error when the cache test of
\* line 27 fails, and returns the cached token when that test passes.
C7_ConfigurationErrorOnMiss ==
    \A k \in Calls :
       (k.kind = "token" /\ ~k.conf)
          => /\ k.tokReqs = 0
             /\ (Ended(k) /\ ~k.hit) => k.ret = ConfigurationError
             /\ (Ended(k) /\ k.hit) => k.ret.type = "token"

\* C7 witness: a call made without configuration on an empty or expired
\* cache has failed with the configuration error.
C7_Witness ==
    /\ Ended(last) /\ last.kind = "token" /\ ~last.conf /\ ~last.hit
    /\ last.ret = ConfigurationError /\ last.tokReqs = 0

\* C8: a token request that times out fails with the timeout error; an
\* error status, or a decoded body without access_token or without
\* expires_in, fails with a protocol error.
C8_AuthErrors ==
    (Ended(last) /\ last.kind = "token")
       => /\ last.body.shape = "timeout" => last.ret = AuthTimeout
          /\ last.body.shape = "status" => last.ret \in AuthProtocol
          /\ (/\ last.body.shape = "dict"
              /\ (last.body.access_token = None \/ last.body.expires_in.k = "missing"))
                => last.ret \in AuthProtocol

\* C9: when the token call inside search_flights raises, the call returns
\* the authentication failure and sends no flight-offers request.
C9_AuthFailureStopsSearch ==
    \A k \in Calls :
       (k.kind = "search" /\ k.tok.type = "raised")
          => /\ k.fltReqs = 0
             /\ Ended(k) => k.ret = Failure("Authentication Error")

\* C9 witness: a search whose token request timed out has returned the
\* authentication failure.
C9_Witness ==
    /\ Ended(last) /\ last.kind = "search"
    /\ last.tok = AuthTimeout
    /\ last.ret = Failure("Authentication Error") /\ last.fltReqs = 0

\* C10: a call that misses the cache and is granted a token with a TTL
\* stores that token, sets the expiry to now + TTL - 60 s, and returns the
\* token it was granted.
C10_GrantStoredAndReturned ==
    /\ [][\A c \in Callers :
            (At(c, "t50") /\ call'[c].pc = "t55")
               => amadeus_access_token' = call'[c].body.access_token]_vars
    /\ [][\A c \in Callers :
            (At(c, "t55") /\ call'[c].pc = "t58" /\ call[c].body.expires_in.k = "num")
               => amadeus_token_expiry' = Some(clock + call[c].body.expires_in.v - 60)]_vars
    /\ [][\A c \in Callers :
            (At(c, "t58") /\ call'[c].pc /= "t58" /\ call[c].kind = "token")
               => last'.ret = Token(call[c].body.access_token)]_vars

\* C11: the cache test of line 27 lets a call take the cached token only
\* while the current time is strictly before the token's server-side
\* expiry minus 60 s: no call returns from the cache a token with 60 s or
\* less of its own server lifetime left.
C11_SafetyMargin ==
    [][\A c \in Callers :
         (At(c, "t27") /\ call'[c].pc = "t29" /\ server_expiry /= None)
            => clock < server_expiry[1] - 60]_vars

\* the cache test of line 27 fails
CacheMiss ==
    \/ amadeus_access_token = None
    \/ amadeus_token_expiry = None
    \/ clock >= amadeus_token_expiry[1]

\* C12 as stated: a call that tests the cache when there is no credential
\* or now >= expiry is not answered from the cache and sends a token
\* request, whatever the configuration.
C12_RefreshAlwaysRequested ==
    [][\A c \in Callers :
         (At(c, "t27") /\ call'[c].pc /= "t27" /\ CacheMiss)
            => (call'[c].pc = "t32" /\ ~call'[c].hit)]_vars
    /\ [][\A c \in Callers :
            (At(c, "t32") /\ call'[c].pc /= "t32")
               => /\ call'[c].pc = "t50"
                  /\ call'[c].tokReqs = 1
                  /\ tokenRequests' = tokenRequests + 1]_vars

\* C12 amended: the credential is created on first use; a call that tests
\* the cache when there is no credential or now >= expiry is not answered
\* from the cache: with the configuration present it sends one token
\* request, and when the request succeeds it replaces the token by the
\* granted one and the expiry by one that lies ahead, and returns a token
\* granted no earlier than its own.
C12_CredentialLifecycle ==
    /\ [][\A c \in Callers :
            (At(c, "t27") /\ call'[c].pc /= "t27" /\ CacheMiss)
               => (call'[c].pc = "t32" /\ ~call'[c].hit)]_vars
    /\ [][\A c \in Callers :
            (At(c, "t32") /\ call'[c].pc /= "t32" /\ env)
               => /\ call'[c].pc = "t50"
                  /\ call'[c].tokReqs = 1
                  /\ tokenRequests' = tokenRequests + 1]_vars
    /\ [][\A c \in Callers :
            (At(c, "t50") /\ call'[c].pc = "t55")
               => /\ call'[c].body.access_token /= None
                  /\ amadeus_access_token' = call'[c].body.access_token]_vars
    /\ [][\A c \in Callers :
            (At(c, "t55") /\ call'[c].pc = "t58")
               => /\ amadeus_token_expiry' /= None
                  /\ amadeus_token_expiry'[1] > clock]_vars
    /\ [](\A k \in Calls :
            (k.kind = "token" /\ Ended(k) /\ ~k.hit /\ k.ret.type = "token")
               => /\ k.tokReqs = 1
                  /\ k.ret.val /= None
                  /\ k.ret.val[1] >= k.body.access_token[1])

\* C12 witness: the first call was granted a credential that has expired
\* since; the second call has sent a token request and returned the token
\* of the second grant, which is cached with an expiry that lies ahead.
C12_Witness ==
    /\ started = 2 /\ ~overlapped /\ Quiet
    /\ firstExp /= None /\ clock >= firstExp[1]
    /\ Ended(last) /\ last.kind = "token" /\ ~last.hit /\ last.tokReqs = 1
    /\ last.ret = Token(Some(2))
    /\ amadeus_access_token = Some(2)
    /\ amadeus_token_expiry /= None /\ amadeus_token_expiry[1] > clock

\* C13: a decoded flight-offers response of status 200 whose body carries
\* the provider's route-error code is answered with the upstream
\* route-error failure, never with a price, the no-offers failure or a
\* generic failure.
C13_UpstreamRouteError ==
    (/\ Ended(last) /\ last.kind = "search"
     /\ last.body.shape = "dict" /\ last.body.route_error)
       => last.ret = Failure("UpstreamRouteError")

\* C14: a decoded flight-offers response without offers, its offer list
\* missing or empty, is answered with the no-offers failure.
C14_NoResultsFound ==
    (/\ Ended(last) /\ last.kind = "search"
     /\ last.body.shape = "dict"
     /\ (~last.body.has_data \/ Len(last.body.data) = 0))
       => last.ret = Failure("No flight offers found")

\* C14 witness: a search whose response held an empty offer list has
\* returned the no-offers failure.
C14_Witness ==
    /\ Ended(last) /\ last.kind = "search" /\ last.fltReqs = 1
    /\ last.body.shape = "dict" /\ last.body.has_data /\ last.body.data = <<>>
    /\ last.ret = Failure("No flight offers found")

\* C15: a search_flights call sends at most one GET to the flight-offers
\* endpoint, and a call that has its token and whose dates format has sent
\* exactly one by the time it waits for the response or has ended: no
\* request is repeated after a failure and no call is answered without a
\* request, a second call with the arguments of the first included.
C15_ExactlyOneGet ==
    \A k \in Calls :
       k.kind = "search"
          => /\ k.fltReqs <= 1
             /\ k.pc = "s161" => k.fltReqs = 1
             /\ (Ended(k) /\ k.tok.type = "token" /\ DatesFormat(k.args)) => k.fltReqs = 1
             /\ (Ended(k) /\ k.ret.type = "success") => k.fltReqs = 1

\* C15 witness: the second of two searches, which took its token from the
\* cache the first one filled, has sent its own GET and returned a price.
C15_Witness ==
    /\ started = 2
    /\ Ended(last) /\ last.kind = "search"
    /\ last.hit /\ last.tok.type = "token" /\ DatesFormat(last.args)
    /\ last.fltReqs = 1 /\ last.ret.type = "success"

\* the text YYYY-MM-DD of a calendar date
Canonical(dt) == FourDigits(dt.y) \o <<"-">> \o TwoDigits(dt.m) \o <<"-">> \o TwoDigits(dt.d)

\* a string in one of the two accepted formats that names a calendar date
ValidDate(s) == Accepted(s) /\ DateOf(s).ok

\* C16: format_date_for_api accepts exactly the formats DD/MM/YYYY and
\* YYYY-MM-DD: a valid date in either format is answered with the same
\* calendar date as YYYY-MM-DD, and an argument in neither format fails.
C16_TwoFormats ==
    dates.out /= <<>>
       => /\ ValidDate(dates.date_str)
                => /\ dates.out[1].ok
                   /\ dates.out[1].val = Canonical(DateOf(dates.date_str))
          /\ ~Accepted(dates.date_str) => ~dates.out[1].ok

\* C17: on a valid date in either accepted format format_date_for_api is
\* idempotent: applied to its own result it returns that result.
C17_Idempotent ==
    (Len(dates.out) >= 2 /\ ValidDate(dates.date_str)) => dates.out[2] = dates.out[1]

\* the flight-offers request was answered with a 2xx status
Answered2xx(k) == k.body.shape \in {"dict", "other", "undecodable"}

\* C18: a flight-offers request that times out is answered with the
\* timeout failure; any other transport error or an error status is
\* answered with the request-failed failure, whatever the body; only a
\* response of status 2xx is answered with the upstream route-error
\* failure, the no-offers failure or a price.
C18_ClassificationPriority ==
    (Ended(last) /\ last.kind = "search" /\ last.fltReqs = 1)
       => /\ last.body.shape = "timeout" => last.ret = Failure("timed out")
          /\ last.body.shape \in {"connection", "status"}
                => last.ret = Failure("request failed")
          /\ (\/ last.ret.type = "success"
              \/ last.ret = Failure("No flight offers found")
              \/ last.ret = Failure("UpstreamRouteError"))
                => Answered2xx(last)

\* the results search_flights can return for its arguments, the outcome of
\* its token call and the response to its flight-offers request
SearchResults(k) ==
    IF k.tok.type = "raised" THEN {Failure("Authentication Error")}
    ELSE IF ~DatesFormat(k.args) THEN {Failure("Invalid date format")}
    ELSE IF k.body.shape \in HttpFailures THEN FlightFailure(k.body.shape)
    ELSE {Classify(k.body)}

C20_OffersGiveSuccess ==
    (/\ Ended(last) /\ last.kind = "search"
     /\ last.body.shape = "dict" /\ last.body.has_data
     /\ Len(last.body.data) > 0)
       => /\ last.ret.type = "success"
          /\ last.ret.val /= None
          /\ last.ret.what /= ""
          /\ last.ret /= Failure("No flight offers found")

\* C21: under any interleaving of concurrent calls the cached token and
\* the cached expiry come from the same response of the token endpoint:
\* the expiry a call stores at line 56 goes with the token of its own
\* grant, and no call leaves the token of its grant in the cache without
\* storing the expiry of that grant.
C21_SameGrant ==
    /\ [][\A c \in Callers :
            (At(c, "t55") /\ call'[c].pc = "t58")
               => amadeus_access_token = call[c].body.access_token]_vars
    /\ [][\A c \in Callers :
            (At(c, "t55") /\ call'[c].pc /= "t55")
               => (\/ call'[c].pc = "t58"
                   \/ amadeus_access_token /= call[c].body.access_token)]_vars

\* C22: a call of the token function that fails, for missing
\* configuration, a timeout, an error status or a response no credential
\* can be built from, leaves the cache as it was when the call was made
\* (no other call running meanwhile): the same token and the same expiry.
C22_FailureKeepsCache ==
    (/\ Ended(last) /\ last.kind = "token" /\ last.ret.type = "raised"
     /\ ~overlapped)
       => <<amadeus_access_token, amadeus_token_expiry>> = last.seen

====
